---- MODULE Spec2Model ----
(***************************************************************************)
(* Model of nextorch/utils.py (scaling and standardization transforms,     *)
(* 2D mesh helper) and nextorch/doe.py (factorial sampling plan).          *)
(*                                                                         *)
(* The functions are pure; the state machine is a caller that starts idle, *)
(* calls one forward transform on inputs drawn from bounded sets and then  *)
(* optionally feeds the result to the matching inverse transform.          *)
(*                                                                         *)
(* float64 array entries are modelled as exact numbers <<n, d>>:           *)
(*   d > 0   the rational n/d in lowest terms                              *)
(*   <<1,0>>, <<-1,0>>, <<0,0>>   numpy's inf, -inf and nan                *)
(*   <<2,0>>  a finite value the exact domain cannot represent (log10 of   *)
(*            a non-power of ten, sqrt of a non-square, 10**x for          *)
(*            non-integer or too large x); a call producing one is left    *)
(*            out of the enumerated inputs (see InDomain).                 *)
(* Python/numpy indices are 0-based; sequences here are 1-based.           *)
(***************************************************************************)
EXTENDS Integers, Sequences, FiniteSets, TLC

\* ---------------------------------------------------------------- bounds
MaxRows == 2
MaxCols == 2
MaxExp == 4
MaxMesh == 4
MaxLevels == 3

\* ---------------------------------------------------------------- numbers
RECURSIVE Gcd(_, _)
Gcd(a, b) == IF b = 0 THEN a ELSE Gcd(b, a % b)

Abs(n) == IF n < 0 THEN -n ELSE n

Sgn(n) == IF n < 0 THEN -1 ELSE IF n = 0 THEN 0 ELSE 1

\* n/d (d # 0) in lowest terms with a positive denominator
Rat(n, d) ==
  LET g == Gcd(Abs(n), Abs(d))
      s == IF d < 0 THEN -1 ELSE 1
  IN  <<(s * n) \div g, (s * d) \div g>>

Num(k) == <<k, 1>>

PosInf == <<1, 0>>
NegInf == <<-1, 0>>
NaN == <<0, 0>>
Inexact == <<2, 0>>

IsFin(a) == a[2] > 0
IsInfinite(a) == a = PosInf \/ a = NegInf

Neg(a) == IF a = Inexact THEN Inexact ELSE <<-a[1], a[2]>>

\* a + b in IEEE arithmetic: inf + (-inf) = nan, nan absorbs
Add(a, b) ==
  IF a = NaN \/ b = NaN THEN NaN
  ELSE IF a = Inexact \/ b = Inexact THEN Inexact
  ELSE IF IsInfinite(a) /\ IsInfinite(b) THEN (IF a = b THEN a ELSE NaN)
  ELSE IF IsInfinite(a) THEN a
  ELSE IF IsInfinite(b) THEN b
  ELSE Rat(a[1] * b[2] + b[1] * a[2], a[2] * b[2])

Sub(a, b) == Add(a, Neg(b))

\* a * b in IEEE arithmetic: 0 * inf = nan
Mul(a, b) ==
  IF a = NaN \/ b = NaN THEN NaN
  ELSE IF a = Inexact \/ b = Inexact THEN Inexact
  ELSE IF IsInfinite(a) \/ IsInfinite(b)
       THEN (IF a[1] = 0 \/ b[1] = 0 THEN NaN
             ELSE <<Sgn(a[1]) * Sgn(b[1]), 0>>)
  ELSE Rat(a[1] * b[1], a[2] * b[2])

\* 1 / a with numpy's division by zero: 1/0 = inf (a warning, no exception)
Inv(a) ==
  IF a = NaN THEN NaN
  ELSE IF a = Inexact THEN Inexact
  ELSE IF IsInfinite(a) THEN Num(0)
  ELSE IF a[1] = 0 THEN PosInf
  ELSE Rat(a[2], a[1])

\* a / b: x/0 = +-inf for x # 0, 0/0 = nan
Div(a, b) == Mul(a, Inv(b))

RECURSIVE IntPow10(_)
IntPow10(k) == IF k = 0 THEN 1 ELSE 10 * IntPow10(k - 1)

\* 10**k for an integer k
Pow10Int(k) == IF k >= 0 THEN <<IntPow10(k), 1>> ELSE <<1, IntPow10(-k)>>

\* np.log10: log10(0) = -inf, log10(x < 0) = nan, log10(10**k) = k
Log10(a) ==
  IF a = NaN \/ a = NegInf THEN NaN
  ELSE IF a = Inexact THEN Inexact
  ELSE IF a = PosInf THEN PosInf
  ELSE IF a[1] = 0 THEN NegInf
  ELSE IF a[1] < 0 THEN NaN
  ELSE IF \E k \in -MaxExp..MaxExp : Pow10Int(k) = a
       THEN Num(CHOOSE k \in -MaxExp..MaxExp : Pow10Int(k) = a)
  ELSE Inexact

\* 10**a on floats: 10**(-inf) = 0, 10**inf = inf
Pow10(a) ==
  IF a = NaN THEN NaN
  ELSE IF a = Inexact THEN Inexact
  ELSE IF a = PosInf THEN PosInf
  ELSE IF a = NegInf THEN Num(0)
  ELSE IF a[2] = 1 /\ Abs(a[1]) <= MaxExp THEN Pow10Int(a[1])
  ELSE Inexact

\* np.around(a, decimals): round half to even at 10**-decimals
Around(a, decimals) ==
  IF ~IsFin(a) THEN a
  ELSE LET p == IntPow10(decimals)
           n == a[1] * p
           m == a[2]
           f == n \div m
           r == n % m
           q == IF 2 * r < m THEN f
                ELSE IF 2 * r > m THEN f + 1
                ELSE IF f % 2 = 0 THEN f ELSE f + 1
       IN  Rat(q, p)

\* ---------------------------------------------------------------- arrays
\* A numpy array / nested list: ndim and its entries as a sequence of rows
\* (a 1-D array is held as its single row)
Arr1(v) == [ndim |-> 1, a |-> <<v>>]
Arr2(m) == [ndim |-> 2, a |-> m]

\* the entries of a 1-D array
Vec(A) == A.a[1]

\* Python None and the empty list []
None == [ndim |-> 0, a |-> <<<<>>>>]
EmptyList == Arr1(<<>>)

\* A call's outcome: a returned value or a raised exception
Return(v) == [status |-> "ok", val |-> v]
Raise(e) == [status |-> e, val |-> <<>>]

NumRows(M) == Len(M)
NumCols(M) == IF Len(M) = 0 THEN 0 ELSE Len(M[1])

\* np.transpose of a 2-D array given as a sequence of rows
TransposeRows(M) == [j \in 1..NumCols(M) |-> [i \in 1..NumRows(M) |-> M[i][j]]]

\* np.transpose: a 1-D array is returned unchanged
transpose(A) == IF A.ndim < 2 THEN A ELSE Arr2(TransposeRows(A.a))


\* ---------------------------------------------------------------- utils.py
\* (xv - lb)/(rb - lb), elementwise on the vector xv
unitscale_xv(xv, xi_range) ==
  LET lb == xi_range[1]
      rb == xi_range[2]
  IN  [k \in 1..Len(xv) |-> Div(Sub(xv[k], lb), Sub(rb, lb))]

\* faulty variant of inverse_unitscale_xv: the offset is the right bound
inverse_unitscale_xv_FromRightBound(xv, xi_range) ==
  LET lb == xi_range[1]
      rb == xi_range[2]
  IN  [k \in 1..Len(xv) |-> Add(rb, Mul(Sub(rb, lb), xv[k]))]

\* lb + (rb - lb)*xv, elementwise on the vector xv
inverse_unitscale_xv(xv, xi_range) ==
  LET lb == xi_range[1]
      rb == xi_range[2]
  IN  [k \in 1..Len(xv) |-> Add(lb, Mul(Sub(rb, lb), xv[k]))]

\* faulty variant of Promote: a 1-D input becomes a column, one row per entry
Promote_AsColumn(X) ==
  IF X.ndim < 2 THEN Arr2([k \in 1..Len(Vec(X)) |-> <<Vec(X)[k]>>]) ELSE X

\* "If 1D, make it 2D": X = np.array([X])
Promote(X) == IF X.ndim < 2 THEN Arr2(<<Vec(X)>>) ELSE X

\* faulty variant of RangesOf: the default ranges are transposed as well
RangesOf_DefaultTransposed(X_range, dim) ==
  transpose(IF X_range = EmptyList THEN Arr2([i \in 1..dim |-> <<Num(0), Num(1)>>])
            ELSE X_range)

\* X_range = [[0,1]] * dim when no range is given, np.transpose(X_range) otherwise
RangesOf(X_range, dim) ==
  IF X_range = EmptyList THEN Arr2([i \in 1..dim |-> <<Num(0), Num(1)>>])
  ELSE transpose(X_range)

\* log_flags = [False] * dim when no flags are given
FlagsOf(log_flags, dim) ==
  IF log_flags = <<>> THEN [i \in 1..dim |-> FALSE] ELSE log_flags

\* log_flags[i], X_range[i], xi_range[0] or xi_range[1] is out of range
\* (indexing a scalar entry of a 1-D X_range raises IndexError as well)
ColumnRaises(R, flags, i) ==
  \/ i > Len(flags)
  \/ R.ndim < 2
  \/ i > Len(R.a)
  \/ Len(R.a[i]) < 2

\* np.around(Xout, decimals) unless decimals is None (the empty sequence)
RoundUp(M, decimals) ==
  IF decimals = <<>> THEN M
  ELSE [r \in 1..Len(M) |-> [i \in 1..Len(M[r]) |-> Around(M[r][i], decimals[1])]]

\* the matrix whose column i is cols[i]
FromColumns(cols, nrows) ==
  [r \in 1..nrows |-> [i \in 1..Len(cols) |-> cols[i][r]]]

unitscale_X(X, X_range, log_flags, decimals) ==
  LET X2 == Promote(X).a
      dim == NumCols(X2)
      R == RangesOf(X_range, dim)
      flags == FlagsOf(log_flags, dim)
      XT == TransposeRows(X2)
      cols == [i \in 1..dim |->
                 IF flags[i]
                 THEN LET u == unitscale_xv(XT[i], R.a[i])
                      IN  [k \in 1..Len(u) |-> Log10(u[k])]
                 ELSE unitscale_xv(XT[i], R.a[i])]
  IN  IF \E i \in 1..dim : ColumnRaises(R, flags, i) THEN Raise("IndexError")
      ELSE Return(RoundUp(FromColumns(cols, NumRows(X2)), decimals))

inverse_unitscale_X(X, X_range, log_flags, decimals) ==
  LET X2 == Promote(X).a
      dim == NumCols(X2)
      R == RangesOf(X_range, dim)
      flags == FlagsOf(log_flags, dim)
      XT == TransposeRows(X2)
      cols == [i \in 1..dim |->
                 IF flags[i]
                 THEN LET v == inverse_unitscale_xv(XT[i], R.a[i])
                      IN  [k \in 1..Len(v) |-> Pow10(v[k])]
                 ELSE inverse_unitscale_xv(XT[i], R.a[i])]
  IN  IF \E i \in 1..dim : ColumnRaises(R, flags, i) THEN Raise("IndexError")
      ELSE Return(RoundUp(FromColumns(cols, NumRows(X2)), decimals))

RECURSIVE SumSeq(_)
SumSeq(v) == IF Len(v) = 0 THEN Num(0) ELSE Add(v[1], SumSeq(Tail(v)))

\* the exact square root of a rational, where it is rational
Sqrt(a) ==
  IF ~IsFin(a) THEN a
  ELSE IF (\E p \in 0..a[1] : p * p = a[1]) /\ (\E q \in 1..a[2] : q * q = a[2])
       THEN <<CHOOSE p \in 0..a[1] : p * p = a[1], CHOOSE q \in 1..a[2] : q * q = a[2]>>
  ELSE Inexact

\* X.mean(axis = 0): the mean of each column
mean(M) ==
  LET XT == TransposeRows(M)
  IN  [j \in 1..NumCols(M) |-> Div(SumSeq(XT[j]), Num(NumRows(M)))]

\* X.std(axis = 0): the population standard deviation of each column (ddof = 0)
std(M) ==
  LET XT == TransposeRows(M)
      mu == mean(M)
      sq(j) == [i \in 1..NumRows(M) |->
                 Mul(Sub(XT[j][i], mu[j]), Sub(XT[j][i], mu[j]))]
  IN  [j \in 1..NumCols(M) |-> Sqrt(Div(SumSeq(sq(j)), Num(NumRows(M))))]

\* (X - m) / s with the vectors m, s broadcast along the rows
Standardized(M, m, s) ==
  [i \in 1..NumRows(M) |-> [j \in 1..NumCols(M) |-> Div(Sub(M[i][j], m[j]), s[j])]]

\* mean and std are both computed when X_mean is None, and only then;
\* (X - X_mean) / None raises TypeError
standardize_X(X, X_mean, X_std) ==
  IF X_mean = None THEN Return(Standardized(X, mean(X), std(X)))
  ELSE IF X_std = None THEN Raise("TypeError")
  ELSE Return(Standardized(X, Vec(X_mean), Vec(X_std)))

\* faulty variant of inverse_standardize_X: the mean is subtracted
inverse_standardize_X_MinusMean(X, X_mean, X_std) ==
  [i \in 1..NumRows(X) |->
     [j \in 1..NumCols(X) |-> Sub(Mul(X[i][j], X_std[j]), X_mean[j])]]

\* np.multiply(X, X_std) + X_mean (X * X_std + X_mean for a tensor: the same
\* elementwise arithmetic)
inverse_standardize_X(X, X_mean, X_std) ==
  [i \in 1..NumRows(X) |->
     [j \in 1..NumCols(X) |-> Add(Mul(X[i][j], X_std[j]), X_mean[j])]]


\* np.linspace(start, stop, num): num evenly spaced points, the last one set to stop;
\* a single point is start
linspace(start, stop, num) ==
  LET div == num - 1
      delta == Sub(stop, start)
      step == Div(delta, Num(div))
  IN  [k \in 1..num |->
         IF div > 0
         THEN (IF k = num THEN stop ELSE Add(Mul(Num(k - 1), step), start))
         ELSE Add(Mul(Num(k - 1), delta), start)]

\* faulty variant of meshgrid: both grids vary along the second axis
meshgrid_SameAxis(x1, x2) ==
  [X1 |-> [i \in 1..Len(x2) |-> [j \in 1..Len(x1) |-> x1[j]]],
   X2 |-> [i \in 1..Len(x2) |-> [j \in 1..Len(x1) |-> x2[j]]]]

\* np.meshgrid(x1, x2, indexing = 'xy'): X1[i,j] = x1[j], X2[i,j] = x2[i]
meshgrid(x1, x2) ==
  [X1 |-> [i \in 1..Len(x2) |-> [j \in 1..Len(x1) |-> x1[j]]],
   X2 |-> [i \in 1..Len(x2) |-> [j \in 1..Len(x1) |-> x2[i]]]]

\* X_test gets [X1[i,j], X2[i,j]] appended for i in range(nx1), for j in range(nx2)
create_2D_mesh(mesh_size) ==
  LET nx1 == mesh_size
      nx2 == mesh_size
      x1 == linspace(Num(0), Num(1), nx1)
      x2 == linspace(Num(0), Num(1), nx2)
      g == meshgrid(x1, x2)
      X_test == [k \in 1..(nx1 * nx2) |->
                   LET i == ((k - 1) \div nx2) + 1
                       j == ((k - 1) % nx2) + 1
                   IN  <<g.X1[i][j], g.X2[i][j]>>]
  IN  [X_test |-> X_test, X1 |-> g.X1, X2 |-> g.X2]

\* ---------------------------------------------------------------- doe.py
\* the functions nextorch/utils.py defines
utils_functions ==
  {"unitscale_xv", "unitscale_X", "inverse_unitscale_xv", "inverse_unitscale_X",
   "standardize_X", "inverse_standardize_X", "create_2D_mesh",
   "transform_plot2D_X", "transform_plot2D_Y"}

\* ut.<name>(X, X_range = X_range): the attribute is looked up when the call runs
\* and a name the module does not define raises AttributeError
CallUtils(name, X, X_range) ==
  IF name \notin utils_functions THEN Raise("AttributeError")
  ELSE IF name = "unitscale_X" THEN unitscale_X(X, X_range, <<>>, <<>>)
  ELSE IF name = "inverse_unitscale_X" THEN inverse_unitscale_X(X, X_range, <<>>, <<>>)
  ELSE Raise("TypeError")

RECURSIVE Product(_)
Product(v) == IF Len(v) = 0 THEN 1 ELSE v[1] * Product(Tail(v))

\* pyDOE2.fullfact(levels): every combination of the levels 0..n_k-1,
\* the first factor varying fastest
fullfact(levels) ==
  [r \in 1..Product(levels) |->
     [k \in 1..Len(levels) |->
        Num(((r - 1) \div Product(SubSeq(levels, 1, k - 1))) % levels[k])]]

factorial(levels) ==
  LET X_real == fullfact(levels)
      X_ranges == transpose(Arr2([k \in 1..Len(levels) |-> <<Num(0), Num(levels[k] - 1)>>]))
  IN  CallUtils("norm_X", Arr2(X_real), X_ranges)

\* ---------------------------------------------------------------- inputs
\* entries of the input arrays and bounds of the ranges
XVals == {1, 2, 50}
RangeVals == {0, 1, 2, 100}
RangePairs == {<<Num(0), Num(2)>>, <<Num(0), Num(100)>>, <<Num(1), Num(3)>>}

\* vectors of 1..MaxCols entries
Vectors == UNION {[1..c -> {Num(v) : v \in XVals}] : c \in 1..MaxCols}

\* the nrows x c matrix whose column j starts at seed[j] and grows by steps[j] per row
MatrixOf(seed, steps, nrows) ==
  [i \in 1..nrows |-> [j \in 1..Len(seed) |-> Num(seed[j] + steps[j] * (i - 1))]]

Ones(c) == [j \in 1..c |-> 1]

\* 1-D arrays of 1..MaxCols entries and 2-D arrays of 1..MaxRows rows
Inputs ==
  {Arr1(v) : v \in Vectors} \cup
  UNION {{Arr2(MatrixOf(seed, Ones(c), nrows)) : seed \in [1..c -> XVals], nrows \in 1..MaxRows}
         : c \in 1..MaxCols}

\* range arguments for dim columns: none, one [lower, upper] pair per column
\* (dim x 2), the transposed layout (2 x dim: the row of lower bounds, the row of
\* upper bounds), and for one column the flat pair [lower, upper]
RangeArgs(dim) ==
  {EmptyList} \cup
  {Arr2(ps) : ps \in [1..dim -> RangePairs]} \cup
  {Arr2(TransposeRows(ps)) : ps \in [1..dim -> RangePairs]} \cup
  (IF dim = 1 THEN {Arr1(p) : p \in RangePairs} ELSE {})

FlagArgs(dim) == {<<>>} \cup [1..dim -> BOOLEAN]

DecimalArgs == {<<>>, <<1>>}

\* matrices for standardization: each column constant or growing by 2 per row
StdInputs ==
  UNION {{MatrixOf(seed, steps, nrows) :
            seed \in [1..c -> XVals], steps \in [1..c -> {0, 2}], nrows \in 1..MaxRows}
         : c \in 1..MaxCols}

\* supplied statistics: None or the same value for every column
MeanArgs(c) == {None} \cup {Arr1([j \in 1..c |-> Num(m)]) : m \in {0, 1}}
StdArgs(c) == {None} \cup {Arr1([j \in 1..c |-> Num(s)]) : s \in {1, 2}}

LevelArgs == UNION {[1..c -> 2..MaxLevels] : c \in 1..MaxCols}

\* every entry of a returned matrix is representable exactly
InDomain(res) ==
  res.status = "ok" =>
    \A i \in 1..Len(res.val) : \A j \in 1..Len(res.val[i]) : res.val[i][j] # Inexact

\* ---------------------------------------------------------------- state
\* pc:   "idle", or the name of the function called last
\* args: the arguments of that call; chained tells that the input was the result
\*       of the forward transform, orig is then the forward transform's input
\* out:  what the call returned or raised
VARIABLES pc, args, out

vars == <<pc, args, out>>

Init ==
  /\ pc = "idle"
  /\ args = [chained |-> FALSE]
  /\ out = Return(<<>>)

Call_unitscale_xv ==
  /\ pc = "idle"
  /\ \E xv \in Vectors, lo \in RangeVals, hi \in RangeVals :
       /\ args' = [xv |-> xv, xi_range |-> <<Num(lo), Num(hi)>>, chained |-> FALSE]
       /\ out' = Return(unitscale_xv(xv, <<Num(lo), Num(hi)>>))
  /\ pc' = "unitscale_xv"

\* called on fresh inputs, or on the result of unitscale_xv with the same range
Call_inverse_unitscale_xv ==
  /\ pc \in {"idle", "unitscale_xv"}
  /\ \E xv \in (IF pc = "idle" THEN Vectors ELSE {out.val}),
        r \in (IF pc = "idle" THEN {<<Num(lo), Num(hi)>> : lo \in RangeVals, hi \in RangeVals}
               ELSE {args.xi_range}) :
       /\ args' = [xv |-> xv, xi_range |-> r, chained |-> pc # "idle",
                   orig |-> IF pc = "idle" THEN <<>> ELSE args.xv]
       /\ out' = Return(inverse_unitscale_xv(xv, r))
  /\ pc' = "inverse_unitscale_xv"

Call_unitscale_X ==
  /\ pc = "idle"
  /\ \E X \in Inputs :
       \E X_range \in RangeArgs(NumCols(Promote(X).a)),
          log_flags \in FlagArgs(NumCols(Promote(X).a)),
          decimals \in DecimalArgs :
         LET res == unitscale_X(X, X_range, log_flags, decimals)
         IN  /\ InDomain(res)
             /\ args' = [X |-> X, X_range |-> X_range, log_flags |-> log_flags,
                         decimals |-> decimals, chained |-> FALSE]
             /\ out' = res
  /\ pc' = "unitscale_X"

\* called on fresh inputs, or on the matrix unitscale_X returned with the same
\* ranges, flags and decimals
Call_inverse_unitscale_X ==
  /\ pc \in {"idle", "unitscale_X"}
  /\ pc = "unitscale_X" => out.status = "ok"
  /\ \E X \in (IF pc = "idle" THEN Inputs ELSE {Arr2(out.val)}) :
       \E X_range \in (IF pc = "idle" THEN RangeArgs(NumCols(Promote(X).a))
                       ELSE {args.X_range}),
          log_flags \in (IF pc = "idle" THEN FlagArgs(NumCols(Promote(X).a))
                         ELSE {args.log_flags}),
          decimals \in (IF pc = "idle" THEN DecimalArgs ELSE {args.decimals}) :
         LET res == inverse_unitscale_X(X, X_range, log_flags, decimals)
         IN  /\ InDomain(res)
             /\ args' = [X |-> X, X_range |-> X_range, log_flags |-> log_flags,
                         decimals |-> decimals, chained |-> pc # "idle",
                         orig |-> IF pc = "idle" THEN None ELSE args.X]
             /\ out' = res
  /\ pc' = "inverse_unitscale_X"

Call_standardize_X ==
  /\ pc = "idle"
  /\ \E X \in StdInputs :
       \E X_mean \in MeanArgs(NumCols(X)), X_std \in StdArgs(NumCols(X)) :
         LET res == standardize_X(X, X_mean, X_std)
         IN  /\ InDomain(res)
             /\ InDomain(Return(<<std(X)>>))
             /\ args' = [X |-> X, X_mean |-> X_mean, X_std |-> X_std, chained |-> FALSE]
             /\ out' = res
  /\ pc' = "standardize_X"

\* called on the matrix standardize_X returned, with the statistics of the original
\* matrix where none were supplied
Call_inverse_standardize_X ==
  /\ pc = "standardize_X"
  /\ out.status = "ok"
  /\ LET X_mean == IF args.X_mean = None THEN mean(args.X) ELSE Vec(args.X_mean)
         X_std == IF args.X_std = None THEN std(args.X) ELSE Vec(args.X_std)
     IN  /\ args' = [X |-> out.val, X_mean |-> X_mean, X_std |-> X_std,
                     chained |-> TRUE, orig |-> args.X,
                     supplied |-> <<args.X_mean # None, args.X_std # None>>]
         /\ out' = Return(inverse_standardize_X(out.val, X_mean, X_std))
  /\ pc' = "inverse_standardize_X"

Call_create_2D_mesh ==
  /\ pc = "idle"
  /\ \E mesh_size \in 1..MaxMesh :
       /\ args' = [mesh_size |-> mesh_size, chained |-> FALSE]
       /\ out' = Return(create_2D_mesh(mesh_size))
  /\ pc' = "create_2D_mesh"

Call_factorial ==
  /\ pc = "idle"
  /\ \E levels \in LevelArgs :
       /\ args' = [levels |-> levels, chained |-> FALSE]
       /\ out' = factorial(levels)
  /\ pc' = "factorial"

Next ==
  \/ Call_unitscale_xv
  \/ Call_inverse_unitscale_xv
  \/ Call_unitscale_X
  \/ Call_inverse_unitscale_X
  \/ Call_standardize_X
  \/ Call_inverse_standardize_X
  \/ Call_create_2D_mesh
  \/ Call_factorial

Spec == Init /\ [][Next]_vars


\* ---------------------------------------------------------------- properties
\* the matrix a call of unitscale_X / inverse_unitscale_X was given (a 1-D input
\* read as one sample) and its number of columns
GivenMatrix == Promote(args.X).a
GivenDim == NumCols(GivenMatrix)

\* the [lower, upper] row the code reads for column i of the current call
CodeRange(i) == RangesOf(args.X_range, GivenDim).a[i]

\* C1: linear round trip: inverse_unitscale_xv(unitscale_xv(x, (lo, hi)), (lo, hi))
\* equals x for every vector x and every range with lo # hi.
C1_LinearRoundTrip ==
  (pc = "inverse_unitscale_xv" /\ args.chained /\ args.xi_range[1] # args.xi_range[2])
    => out.val = args.orig

C1_Witness ==
  /\ pc = "inverse_unitscale_xv"
  /\ args.chained
  /\ args.xi_range = <<Num(0), Num(100)>>
  /\ args.orig = <<Num(50), Num(2)>>
  /\ args.xv = <<Rat(1, 2), Rat(1, 50)>>
  /\ out.val = args.orig

\* C2: log round trip: for a matrix whose entries lie strictly above the lower bound
\* of their column's range (the range the call reads for the column), with
\* lower < upper in every column and no rounding,
\* inverse_unitscale_X(unitscale_X(X, R, flags), R, flags) reproduces X in every
\* column, the columns whose log flag is true included.
C2_LogRoundTrip ==
  (/\ pc = "inverse_unitscale_X"
   /\ args.chained
   /\ args.decimals = <<>>
   /\ out.status = "ok"
   /\ \A i \in 1..NumCols(Promote(args.orig).a) :
        /\ CodeRange(i)[1][1] * CodeRange(i)[2][2] < CodeRange(i)[2][1] * CodeRange(i)[1][2]
        /\ \A r \in 1..NumRows(Promote(args.orig).a) :
             Sub(Promote(args.orig).a[r][i], CodeRange(i)[1])[1] > 0)
    => out.val = Promote(args.orig).a

\* the ranges argument holds one [lower, upper] pair per column
OnePairPerColumn ==
  /\ args.X_range.ndim = 2
  /\ Len(args.X_range.a) = GivenDim
  /\ \A i \in 1..GivenDim : Len(args.X_range.a[i]) = 2

\* column i of the given matrix scaled (forward or inverse) with pair i
ScaledWithPairs ==
  [r \in 1..NumRows(GivenMatrix) |->
     [i \in 1..GivenDim |->
        IF pc = "unitscale_X"
        THEN Div(Sub(GivenMatrix[r][i], args.X_range.a[i][1]),
                 Sub(args.X_range.a[i][2], args.X_range.a[i][1]))
        ELSE Add(args.X_range.a[i][1],
                 Mul(Sub(args.X_range.a[i][2], args.X_range.a[i][1]), GivenMatrix[r][i]))]]

\* C3: range layout: given one (lower, upper) pair per column, unitscale_X and
\* inverse_unitscale_X scale column i with pair i and raise no indexing error
\* (unitscale_X([50], [[0,100]]) = [0.5]).
C3_RangeLayout ==
  (/\ pc \in {"unitscale_X", "inverse_unitscale_X"}
   /\ OnePairPerColumn
   /\ args.log_flags = <<>>
   /\ args.decimals = <<>>)
    => out = Return(ScaledWithPairs)

\* every column of the matrix M has a nonzero standard deviation
NonzeroStd(M) == \A j \in 1..NumCols(M) : std(M)[j] # Num(0)

\* C4 as stated: for all matrices X,
\* inverse_standardize_X(standardize_X(X), mean(X), std(X)) equals X.
C4_StandardizeRoundTrip_AllMatrices ==
  (pc = "inverse_standardize_X" /\ args.supplied = <<FALSE, FALSE>>)
    => out.val = args.orig

\* C4 (amended): for all matrices X whose columns all have a nonzero standard
\* deviation, inverse_standardize_X(standardize_X(X), mean(X), std(X)) equals X.
C4_StandardizeRoundTrip ==
  (pc = "inverse_standardize_X" /\ args.supplied = <<FALSE, FALSE>> /\ NonzeroStd(args.orig))
    => out.val = args.orig

C4_Witness ==
  /\ pc = "inverse_standardize_X"
  /\ args.supplied = <<FALSE, FALSE>>
  /\ args.orig = <<<<Num(1), Num(50)>>, <<Num(3), Num(52)>>>>
  /\ args.X = <<<<Num(-1), Num(-1)>>, <<Num(1), Num(1)>>>>
  /\ args.X_mean = <<Num(2), Num(51)>>
  /\ args.X_std = <<Num(1), Num(1)>>
  /\ out.val = args.orig

\* C5: identity range: unitscale_xv(x, [0,1]) = x, and unitscale_X and
\* inverse_unitscale_X called with no ranges, no log flags and no rounding return
\* the input matrix entry for entry.
C5_IdentityRange ==
  /\ (pc = "unitscale_xv" /\ args.xi_range = <<Num(0), Num(1)>>) => out.val = args.xv
  /\ (/\ pc \in {"unitscale_X", "inverse_unitscale_X"}
      /\ args.X_range = EmptyList
      /\ args.log_flags = <<>>
      /\ args.decimals = <<>>)
       => out = Return(GivenMatrix)

C5_Witness ==
  /\ pc = "inverse_unitscale_X"
  /\ args.chained
  /\ args.X_range = EmptyList
  /\ args.log_flags = <<>>
  /\ args.decimals = <<>>
  /\ args.orig = Arr2(<<<<Num(50), Num(2)>>, <<Num(51), Num(3)>>>>)
  /\ out = Return(args.orig.a)

\* C6: shape preservation: whenever unitscale_X or inverse_unitscale_X returns, a
\* 2-D input of r rows and c columns gives an r x c matrix and a 1-D input of
\* length c gives a 1 x c matrix; with no ranges and no flags given it returns.
C6_ShapePreserved ==
  pc \in {"unitscale_X", "inverse_unitscale_X"} =>
    /\ (args.X_range = EmptyList /\ args.log_flags = <<>>) => out.status = "ok"
    /\ out.status = "ok" =>
         /\ Len(out.val) = (IF args.X.ndim = 2 THEN Len(args.X.a) ELSE 1)
         /\ \A r \in 1..Len(out.val) :
              Len(out.val[r]) = (IF args.X.ndim = 2 THEN Len(args.X.a[1]) ELSE Len(Vec(args.X)))

C6_Witness ==
  /\ pc = "unitscale_X"
  /\ args.X.ndim = 1
  /\ Len(Vec(args.X)) = 2
  /\ args.X_range # EmptyList
  /\ out.status = "ok"
  /\ Len(out.val) = 1
  /\ Len(out.val[1]) = 2

\* the n evenly spaced points of [0,1]
Pts(n) == IF n = 1 THEN {Num(0)} ELSE {Rat(k, n - 1) : k \in 0..(n - 1)}

\* C7: create_2D_mesh(n) returns exactly n*n pairs, the pair at flat index i*n + j
\* is (X1[i,j], X2[i,j]), and the pairs are exactly the n x n grid of evenly spaced
\* points of [0,1] x [0,1], none repeated.
C7_MeshGrid ==
  pc = "create_2D_mesh" =>
    LET n == args.mesh_size
        m == out.val
    IN  /\ Len(m.X_test) = n * n
        /\ \A i \in 0..(n - 1) : \A j \in 0..(n - 1) :
             m.X_test[i * n + j + 1] = <<m.X1[i + 1][j + 1], m.X2[i + 1][j + 1]>>
        /\ {m.X_test[k] : k \in 1..Len(m.X_test)} = Pts(n) \X Pts(n)
        /\ Cardinality({m.X_test[k] : k \in 1..Len(m.X_test)}) = n * n

C7_Witness ==
  /\ pc = "create_2D_mesh"
  /\ args.mesh_size = 3
  /\ out.val.X_test[2] = <<Rat(1, 2), Num(0)>>
  /\ out.val.X_test[4] = <<Num(0), Rat(1, 2)>>
  /\ out.val.X_test[9] = <<Num(1), Num(1)>>

\* C8: factorial(levels) completes for every list of levels n_k >= 2 and returns the
\* level matrix of the sampler with level v of factor k turned into v / (n_k - 1).
C8_FactorialNormalized ==
  pc = "factorial" =>
    out = Return([r \in 1..Product(args.levels) |->
                    [k \in 1..Len(args.levels) |->
                       Div(fullfact(args.levels)[r][k], Num(args.levels[k] - 1))]])

\* what C9 says inverse_unitscale_X returns for the entry x of column i
C9_Expected(x, i) ==
  IF FlagsOf(args.log_flags, GivenDim)[i]
  THEN Add(CodeRange(i)[1], Mul(Sub(CodeRange(i)[2], CodeRange(i)[1]), Pow10(x)))
  ELSE Add(CodeRange(i)[1], Mul(Sub(CodeRange(i)[2], CodeRange(i)[1]), x))

\* C9: order of the log inverse: without rounding, inverse_unitscale_X returns
\* lower + (upper - lower) * 10^x in a column whose log flag is true and
\* lower + (upper - lower) * x in a column whose flag is false.
C9_LogInverseOrder ==
  (pc = "inverse_unitscale_X" /\ out.status = "ok" /\ args.decimals = <<>>) =>
    \A r \in 1..NumRows(GivenMatrix) : \A i \in 1..GivenDim :
      C9_Expected(GivenMatrix[r][i], i) # Inexact
        => out.val[r][i] = C9_Expected(GivenMatrix[r][i], i)

\* C10: standardize_X uses a supplied mean or std as given and computes each of
\* them from X only when it is not supplied: the result is (X - mean) / std with
\* those values, for every combination of supplied statistics.
C10_SuppliedStatistics ==
  pc = "standardize_X" =>
    out = Return(Standardized(args.X,
                              IF args.X_mean = None THEN mean(args.X) ELSE Vec(args.X_mean),
                              IF args.X_std = None THEN std(args.X) ELSE Vec(args.X_std)))

====
